---- MODULE Spec2Model ----
(***************************************************************************)
(* Model of the Git TUI (src/textual-demo/git_tui.py): the command runner, *)
(* the four panels (GitStatus, GitLog, GitBranches, GitCommit) and their   *)
(* button handlers.  Texts are sequences of one-character strings, so that *)
(* str.strip, str.split and slicing are computed as Python computes them.  *)
(***************************************************************************)
EXTENDS Integers, Sequences, FiniteSets, TLC

\* ------------------------------------------------------------------------
\* Text helpers (Python str operations used by the source)
\* ------------------------------------------------------------------------

\* Characters str.strip() removes.
IsSpace(c) == c \in {" ", "\t", "\n", "\r", "\f"}

RECURSIVE lstrip(_)
lstrip(s) == IF s # <<>> /\ IsSpace(Head(s)) THEN lstrip(Tail(s)) ELSE s

RECURSIVE rstrip(_)
rstrip(s) ==
    IF s # <<>> /\ IsSpace(s[Len(s)]) THEN rstrip(SubSeq(s, 1, Len(s) - 1)) ELSE s

\* str.strip()
strip(s) == rstrip(lstrip(s))

\* s[:n]
Take(s, n) == SubSeq(s, 1, IF Len(s) < n THEN Len(s) ELSE n)

\* s[n:]
Drop(s, n) == SubSeq(s, n + 1, Len(s))

\* Position of the first occurrence of character c in s, 0 when absent.
RECURSIVE IndexOf(_, _, _)
IndexOf(s, c, i) ==
    IF i > Len(s) THEN 0 ELSE IF s[i] = c THEN i ELSE IndexOf(s, c, i + 1)

\* s.split(c): always at least one part; "".split(c) is [""].
RECURSIVE split(_, _)
split(s, c) ==
    LET i == IndexOf(s, c, 1)
    IN  IF i = 0 THEN <<s>>
        ELSE <<SubSeq(s, 1, i - 1)>> \o split(Drop(s, i), c)

\* Mutant: every occurrence of c splits.
RECURSIVE split_max_every_delimiter(_, _, _)
split_max_every_delimiter(s, c, n) ==
    LET i == IndexOf(s, c, 1)
    IN  IF i = 0 THEN <<s>>
        ELSE <<SubSeq(s, 1, i - 1)>> \o split_max_every_delimiter(Drop(s, i), c, n)

\* s.split(c, n): at most n splits.
RECURSIVE split_max(_, _, _)
split_max(s, c, n) ==
    LET i == IndexOf(s, c, 1)
    IN  IF n = 0 \/ i = 0 THEN <<s>>
        ELSE <<SubSeq(s, 1, i - 1)>> \o split_max(Drop(s, i), c, n - 1)

\* Position of the first whitespace character of s, 0 when there is none.
RECURSIVE IndexOfSpace(_, _)
IndexOfSpace(s, i) ==
    IF i > Len(s) THEN 0 ELSE IF IsSpace(s[i]) THEN i ELSE IndexOfSpace(s, i + 1)

\* s.split(None, n): fields separated by runs of whitespace, at most n splits.
RECURSIVE split_ws(_, _)
split_ws(s, n) ==
    LET t == lstrip(s)
        i == IndexOfSpace(t, 1)
    IN  IF t = <<>> THEN <<>>
        ELSE IF n = 0 \/ i = 0 THEN <<t>>
        ELSE <<SubSeq(t, 1, i - 1)>> \o split_ws(Drop(t, i), n - 1)

\* s.lstrip(chars)
RECURSIVE lstrip_chars(_, _)
lstrip_chars(s, chars) ==
    IF s # <<>> /\ Head(s) \in chars THEN lstrip_chars(Tail(s), chars) ELSE s

\* sub in s
Contains(s, sub) ==
    \E i \in 1..(Len(s) - Len(sub) + 1) : SubSeq(s, i, i + Len(sub) - 1) = sub

\* ------------------------------------------------------------------------
\* run_git_command
\* ------------------------------------------------------------------------

\* What subprocess.run did: launched = FALSE stands for an exception raised
\* inside the try block (error is str(e)); otherwise returncode, stdout and
\* stderr are those of the finished process.
MkProc(l, rc, out, err, e) ==
    [launched |-> l, returncode |-> rc, stdout |-> out, stderr |-> err, error |-> e]

\* Mutant: the else branch returns the untrimmed standard error.
run_git_command_raw_stderr(p) ==
    IF ~p.launched THEN <<FALSE, p.error>>
    ELSE IF p.returncode = 0 THEN <<TRUE, strip(p.stdout)>>
    ELSE <<FALSE, p.stderr>>

run_git_command(p) ==
    IF ~p.launched THEN <<FALSE, p.error>>
    ELSE IF p.returncode = 0 THEN <<TRUE, strip(p.stdout)>>
    ELSE <<FALSE, strip(p.stderr)>>

\* ------------------------------------------------------------------------
\* State
\* ------------------------------------------------------------------------

VARIABLES
    proc,              \* run_git_command: what subprocess.run did
    result,            \* run_git_command: the returned pair, <<>> before the call
    repo,              \* the repository git reports on (working tree, branch)
    mounted,           \* the panels whose on_mount has run
    repo_info,         \* GitStatus: Static #repo-info
    staged_table,      \* GitStatus: rows of #staged-table
    unstaged_table,    \* GitStatus: rows of #unstaged-table
    untracked_table,   \* GitStatus: rows of #untracked-table
    log_table,         \* GitLog: rows of #log-table
    commit_detail,     \* GitLog: Static #commit-detail
    local_table,       \* GitBranches: rows of #local-branches-table
    remote_table,      \* GitBranches: rows of #remote-branches-table
    new_branch_input,  \* GitBranches: value of Input #new-branch-input
    changes_summary,   \* GitCommit: Static #changes-summary
    commit_message,    \* GitCommit: value of Input #commit-message
    current,           \* GitTUI: ContentSwitcher.current
    handler,           \* the handler that ran last
    calls,             \* the git invocations of that run, in order
    notes,             \* the notifications (app.notify) of that run, in order
    logged,            \* the log_message entries of that run, in order
    text,              \* the tool output handed to a parsing loop
    pending,           \* the key and button presses posted and not yet handled
    in_flight          \* the handler runs that have cleared the tables they rebuild

runVars == <<proc, result, text, pending, in_flight>>
statusVars == <<repo_info, staged_table, unstaged_table, untracked_table>>
logVars == <<log_table, commit_detail>>
branchVars == <<local_table, remote_table, new_branch_input>>
commitVars == <<changes_summary, commit_message>>
traceVars == <<handler, calls, notes, logged>>
vars == <<proc, result, repo, mounted, repo_info, staged_table, unstaged_table,
          untracked_table, log_table, commit_detail, local_table, remote_table,
          new_branch_input, changes_summary, commit_message, current, handler,
          calls, notes, logged, text, pending, in_flight>>

\* ------------------------------------------------------------------------
\* The git tool, as the source invokes it
\* ------------------------------------------------------------------------

NL == <<"\n">>

\* Standard error of a git invocation that exits nonzero.
StderrText == <<"f", "a", "t", "a", "l", ":", " ", "x", "\n">>

\* str(e) of an exception raised by subprocess.run (git cannot be launched).
LaunchErrorText == <<"E", "r", "r", "n", "o", " ", "2">>

\* The outcomes of one invocation whose standard output, if it succeeds, is out.
Outcomes(out) ==
    { MkProc(TRUE, 0, out, <<>>, <<>>),
      MkProc(TRUE, 1, <<>>, StderrText, <<>>),
      MkProc(FALSE, 0, <<>>, <<>>, LaunchErrorText) }

\* Working-tree codes (XY of `git status`) of the tracked file a.py and of the
\* new file b; <<" ", " ">> is a file with nothing to report.
CleanXY == <<" ", " ">>
CodesA == { CleanXY, <<" ", "M">>, <<"M", " ">>, <<"M", "M">> }
CodesB == { CleanXY, <<"?", "?">>, <<"A", " ">> }
PathA == <<"a", ".", "p", "y">>
PathB == <<"b">>
Main == <<"m", "a", "i", "n">>
Dev == <<"d", "e", "v">>
BranchNames == { Main, Dev }
\* dev: whether the branch dev exists (main always does).
Repos == { r \in [a : CodesA, b : CodesB, branch : BranchNames, dev : BOOLEAN] :
             r.branch = Dev => r.dev }

StatusLine(xy, path) == IF xy = CleanXY THEN <<>> ELSE xy \o <<" ">> \o path \o NL

\* stdout of `git status --porcelain` and of `git status --short`.
StatusStdout(r) == StatusLine(r.a, PathA) \o StatusLine(r.b, PathB)

\* stdout of `git rev-parse --show-toplevel`.
RootStdout == <<"/", "r">> \o NL

\* stdout of `git branch --show-current`.
CurrentBranchStdout(r) == r.branch \o NL

Call(c, a, n, ok) == [cmd |-> c, arg |-> a, n |-> n, ok |-> ok]
Note(m, sev, d) == [msg |-> m, severity |-> sev, detail |-> d]
Entry(m, d) == [msg |-> m, detail |-> d]

\* What the git mutations do to the repository when they succeed.
StageXY(xy) ==
    IF xy = <<"?", "?">> THEN <<"A", " ">>
    ELSE IF xy[2] = "M" THEN <<"M", " ">> ELSE xy

UnstageXY(xy) ==
    IF xy = <<"A", " ">> THEN <<"?", "?">>
    ELSE IF xy[1] = "M" THEN <<" ", "M">> ELSE xy

CommitXY(xy) ==
    IF xy = <<"?", "?">> THEN xy
    ELSE IF xy[1] \in {"M", "A"} THEN <<" ", xy[2]>> ELSE xy

\* `git add -A`
git_add(r) == [r EXCEPT !.a = StageXY(r.a), !.b = StageXY(r.b)]

\* `git reset HEAD`
git_reset(r) == [r EXCEPT !.a = UnstageXY(r.a), !.b = UnstageXY(r.b)]

\* `git commit -m` and `git commit --amend`: the index becomes the commit.
git_commit(r) == [r EXCEPT !.a = CommitXY(r.a), !.b = CommitXY(r.b)]

\* `git reset --soft HEAD~1`: the changes of the undone commit are staged
\* again; which files it had touched is not known to the program.
git_undo(r) ==
    { [r EXCEPT !.a = xa, !.b = xb] :
        xa \in { r.a } \cup (IF r.a[1] = " " THEN { <<"M", r.a[2]>> } ELSE {}),
        xb \in { r.b } \cup (IF r.b = CleanXY THEN { <<"A", " ">> } ELSE {}) }

\* `git checkout <name>` and `git checkout -b <name>`
git_checkout(r, name) ==
    [r EXCEPT !.branch = name, !.dev = r.dev \/ name = Dev]

\* ------------------------------------------------------------------------
\* GitStatus
\* ------------------------------------------------------------------------

Row(st, f) == [status |-> st, file |-> f]

staged_label(c) ==
    CASE c = "M" -> "Modified" [] c = "A" -> "Added" [] c = "D" -> "Deleted"
      [] c = "R" -> "Renamed" [] c = "C" -> "Copied"

unstaged_label(c) == CASE c = "M" -> "Modified" [] c = "D" -> "Deleted"

NoRows == [staged |-> <<>>, unstaged |-> <<>>, untracked |-> <<>>]

\* Mutant: the worktree test accepts only "M".
RECURSIVE status_rows_worktree_M_only(_)
status_rows_worktree_M_only(lines) ==
    IF lines = <<>> THEN NoRows
    ELSE LET line == Head(lines)
             rest == status_rows_worktree_M_only(Tail(lines))
         IN  IF Len(line) < 3 THEN rest
             ELSE [staged |->
                     (IF line[1] \in {"M", "A", "D", "R", "C"}
                      THEN <<Row(staged_label(line[1]), Drop(line, 3))>>
                      ELSE <<>>) \o rest.staged,
                   unstaged |->
                     (IF line[2] \in {"M"}
                      THEN <<Row(unstaged_label(line[2]), Drop(line, 3))>>
                      ELSE <<>>) \o rest.unstaged,
                   untracked |->
                     (IF line[1] = "?" /\ line[2] = "?"
                      THEN <<Row("New", Drop(line, 3))>>
                      ELSE <<>>) \o rest.untracked]

\* The loop over status.split("\n") of refresh_status.
RECURSIVE status_rows(_)
status_rows(lines) ==
    IF lines = <<>> THEN NoRows
    ELSE LET line == Head(lines)
             rest == status_rows(Tail(lines))
         IN  IF Len(line) < 3 THEN rest
             ELSE LET index_status == line[1]
                      worktree_status == line[2]
                      filename == Drop(line, 3)
                  IN  [staged |->
                         (IF index_status \in {"M", "A", "D", "R", "C"}
                          THEN <<Row(staged_label(index_status), filename)>>
                          ELSE <<>>) \o rest.staged,
                       unstaged |->
                         (IF worktree_status \in {"M", "D"}
                          THEN <<Row(unstaged_label(worktree_status), filename)>>
                          ELSE <<>>) \o rest.unstaged,
                       untracked |->
                         (IF index_status = "?" /\ worktree_status = "?"
                          THEN <<Row("New", filename)>>
                          ELSE <<>>) \o rest.untracked]

NoInfo == [kind |-> "empty", root |-> <<>>, branch |-> <<>>]
NotARepo == [kind |-> "not a repository", root |-> <<>>, branch |-> <<>>]
Info(root, branch) == [kind |-> "repository", root |-> root, branch |-> branch]

\* get_repo_root: the output on success, None (here <<>>, which `not` treats
\* alike) otherwise.
get_repo_root(p) ==
    LET res == run_git_command(p) IN IF res[1] THEN res[2] ELSE <<>>

\* Mutant: the three tables are not cleared before the rows are added.
refresh_status_without_clear(p_root, p_branch, p_status) ==
    LET repo_root == get_repo_root(p_root)
        c_root == Call("rev-parse --show-toplevel", <<>>, 0, run_git_command(p_root)[1])
        br == run_git_command(p_branch)
        st == run_git_command(p_status)
        c_rest == << Call("branch --show-current", <<>>, 0, br[1]),
                     Call("status --porcelain", <<>>, 0, st[1]) >>
        rows == IF st[2] = <<>> THEN NoRows ELSE status_rows(split(st[2], "\n"))
    IN  IF repo_root = <<>>
        THEN [repo_info |-> NotARepo, staged |-> staged_table,
              unstaged |-> unstaged_table, untracked |-> untracked_table,
              calls |-> <<c_root>>]
        ELSE [repo_info |-> IF br[1] THEN Info(repo_root, br[2]) ELSE repo_info,
              staged |-> staged_table \o rows.staged,
              unstaged |-> unstaged_table \o rows.unstaged,
              untracked |-> untracked_table \o rows.untracked,
              calls |-> <<c_root>> \o c_rest]

\* refresh_status, given what its three invocations do: the new contents of
\* the panel and the invocations made.
refresh_status(p_root, p_branch, p_status) ==
    LET repo_root == get_repo_root(p_root)
        c_root == Call("rev-parse --show-toplevel", <<>>, 0, run_git_command(p_root)[1])
        br == run_git_command(p_branch)
        st == run_git_command(p_status)
        c_rest == << Call("branch --show-current", <<>>, 0, br[1]),
                     Call("status --porcelain", <<>>, 0, st[1]) >>
        rows == IF st[2] = <<>> THEN NoRows ELSE status_rows(split(st[2], "\n"))
    IN  IF repo_root = <<>>
        THEN [repo_info |-> NotARepo, staged |-> staged_table,
              unstaged |-> unstaged_table, untracked |-> untracked_table,
              calls |-> <<c_root>>]
        ELSE [repo_info |-> IF br[1] THEN Info(repo_root, br[2]) ELSE repo_info,
              staged |-> rows.staged, unstaged |-> rows.unstaged,
              untracked |-> rows.untracked,
              calls |-> <<c_root>> \o c_rest]

\* The invocations refresh_status may make on repository r.
StatusProcs(r) ==
    Outcomes(RootStdout) \X Outcomes(CurrentBranchStdout(r)) \X Outcomes(StatusStdout(r))

\* The panel after refresh_status returned ref.
SetStatus(ref) ==
    /\ repo_info' = ref.repo_info
    /\ staged_table' = ref.staged
    /\ unstaged_table' = ref.unstaged
    /\ untracked_table' = ref.untracked

Ran(h, cs, ns, ls) ==
    /\ handler' = h
    /\ calls' = cs
    /\ notes' = ns
    /\ logged' = ls

\* GitStatus.on_mount
GitStatus_on_mount ==
    /\ "GitStatus" \notin mounted
    /\ mounted' = mounted \cup {"GitStatus"}
    /\ \E ps \in StatusProcs(repo) :
         LET ref == refresh_status(ps[1], ps[2], ps[3])
         IN  SetStatus(ref) /\ Ran("GitStatus.on_mount", ref.calls, <<>>, <<>>)
    /\ UNCHANGED <<runVars, repo, logVars, branchVars, commitVars, current>>

\* GitStatus.on_refresh
GitStatus_on_refresh ==
    /\ "GitStatus" \in mounted
    /\ \E ps \in StatusProcs(repo) :
         LET ref == refresh_status(ps[1], ps[2], ps[3])
         IN  /\ SetStatus(ref)
             /\ Ran("GitStatus.on_refresh", ref.calls,
                    <<Note("status refreshed", "information", <<>>)>>, <<>>)
    /\ UNCHANGED <<runVars, repo, mounted, logVars, branchVars, commitVars, current>>

\* Mutant: refresh_status runs whether or not the mutation succeeded.
StatusMutation_refresh_always(h, cmd, after, done, failed) ==
    /\ "GitStatus" \in mounted
    /\ \E pm \in Outcomes(<<>>) :
         LET res == run_git_command(pm)
             now == IF res[1] THEN after ELSE repo
         IN  /\ repo' = now
             /\ \E ps \in StatusProcs(now) :
                  LET ref == refresh_status(ps[1], ps[2], ps[3])
                  IN  /\ SetStatus(ref)
                      /\ Ran(h, <<Call(cmd, <<>>, 0, res[1])>> \o ref.calls,
                             IF res[1] THEN <<Note(done, "information", <<>>)>>
                             ELSE <<Note(failed, "error", res[2])>>, <<>>)
    /\ UNCHANGED <<runVars, mounted, logVars, branchVars, commitVars, current>>

\* on_stage_all and on_unstage_all: one mutation, then refresh_status on success.
StatusMutation(h, cmd, after, done, failed) ==
    /\ "GitStatus" \in mounted
    /\ \E pm \in Outcomes(<<>>) :
         LET res == run_git_command(pm)
         IN  IF res[1]
             THEN /\ repo' = after
                  /\ \E ps \in StatusProcs(after) :
                       LET ref == refresh_status(ps[1], ps[2], ps[3])
                       IN  /\ SetStatus(ref)
                           /\ Ran(h, <<Call(cmd, <<>>, 0, TRUE)>> \o ref.calls,
                                  <<Note(done, "information", <<>>)>>, <<>>)
             ELSE /\ UNCHANGED <<repo, statusVars>>
                  /\ Ran(h, <<Call(cmd, <<>>, 0, FALSE)>>,
                         <<Note(failed, "error", res[2])>>, <<>>)
    /\ UNCHANGED <<runVars, mounted, logVars, branchVars, commitVars, current>>

\* GitStatus.on_stage_all
on_stage_all ==
    StatusMutation("on_stage_all", "add -A", git_add(repo),
                   "staged all changes", "stage failed")

\* GitStatus.on_unstage_all
on_unstage_all ==
    StatusMutation("on_unstage_all", "reset HEAD", git_reset(repo),
                   "unstaged all", "operation failed")

\* ------------------------------------------------------------------------
\* GitCommit
\* ------------------------------------------------------------------------

NoSummary == [kind |-> "empty", staged |-> 0, unstaged |-> 0, untracked |-> 0]
SummaryError == [kind |-> "error", staged |-> 0, unstaged |-> 0, untracked |-> 0]
Summary(s, u, t) == [kind |-> "counts", staged |-> s, unstaged |-> u, untracked |-> t]

\* The counts update_summary computes from the text of `status --short`.
summary_counts(status) ==
    LET lines == IF status # <<>> THEN split(status, "\n") ELSE <<>>
        IsStaged(l) == l # <<>> /\ l[1] \in {"M", "A", "D", "R", "C"}
        IsUnstaged(l) == l # <<>> /\ Len(l) > 1 /\ l[2] \in {"M", "D"}
        IsUntracked(l) == Len(l) >= 2 /\ l[1] = "?" /\ l[2] = "?"
    IN  Summary(Len(SelectSeq(lines, IsStaged)), Len(SelectSeq(lines, IsUnstaged)),
                Len(SelectSeq(lines, IsUntracked)))

\* update_summary, given what its invocation does: the new #changes-summary.
update_summary(p) ==
    LET res == run_git_command(p)
    IN  IF res[1] THEN summary_counts(res[2]) ELSE SummaryError

SummaryCall(p) == Call("status --short", <<>>, 0, run_git_command(p)[1])

\* What the user may type into #commit-message.
Messages == { <<>>, <<" ">>, <<"f", "i", "x", " ">> }

HasStaged(r) == r.a[1] # " " \/ r.b[1] = "A"

Failures == { p \in Outcomes(<<>>) : ~run_git_command(p)[1] }

\* `git commit -m` exits nonzero when nothing is staged.
CommitOutcomes(r) == IF HasStaged(r) THEN Outcomes(<<>>) ELSE Failures

\* GitCommit.on_mount
GitCommit_on_mount ==
    /\ "GitCommit" \notin mounted
    /\ mounted' = mounted \cup {"GitCommit"}
    /\ \E p \in Outcomes(StatusStdout(repo)) :
         /\ changes_summary' = update_summary(p)
         /\ Ran("GitCommit.on_mount", <<SummaryCall(p)>>, <<>>, <<>>)
    /\ UNCHANGED <<runVars, repo, statusVars, logVars, branchVars, commit_message,
                   current>>

\* The user edits the commit message.
type_commit_message ==
    /\ "GitCommit" \in mounted
    /\ \E m \in Messages : commit_message' = m
    /\ commit_message' # commit_message
    /\ Ran("input", <<>>, <<>>, <<>>)
    /\ UNCHANGED <<runVars, repo, mounted, statusVars, logVars, branchVars,
                   changes_summary, current>>

\* GitCommit.on_commit
on_commit ==
    /\ "GitCommit" \in mounted
    /\ LET message == strip(commit_message)
       IN  IF message = <<>>
           THEN /\ Ran("on_commit", <<>>,
                       <<Note("enter a commit message", "warning", <<>>)>>, <<>>)
                /\ UNCHANGED <<repo, commitVars>>
           ELSE \E pc \in CommitOutcomes(repo) :
                  LET res == run_git_command(pc)
                  IN  IF res[1]
                      THEN /\ repo' = git_commit(repo)
                           /\ commit_message' = <<>>
                           /\ \E p \in Outcomes(StatusStdout(git_commit(repo))) :
                                /\ changes_summary' = update_summary(p)
                                /\ Ran("on_commit",
                                       <<Call("commit -m", message, 0, TRUE),
                                         SummaryCall(p)>>,
                                       <<Note("commit succeeded", "information", <<>>)>>,
                                       <<Entry("commit succeeded", message)>>)
                      ELSE /\ UNCHANGED <<repo, commitVars>>
                           /\ Ran("on_commit",
                                  <<Call("commit -m", message, 0, FALSE)>>,
                                  <<Note("commit failed", "error", <<>>)>>,
                                  <<Entry("commit failed", res[2])>>)
    /\ UNCHANGED <<runVars, mounted, statusVars, logVars, branchVars, current>>

\* on_commit_push: what it reports when the commit fails.
commit_failed_report(output) ==
    [notes |-> <<>>, logged |-> <<Entry("commit failed", output)>>]

\* Mutant: a failed push is reported like any failed operation.
push_failed_report_generic(message, output) ==
    [notes |-> <<Note("operation failed", "error", <<>>)>>,
     logged |-> <<Entry("commit succeeded", message),
                  Entry("operation failed", output)>>]

\* on_commit_push: what it reports when the commit succeeds and the push fails.
push_failed_report(message, output) ==
    [notes |-> <<Note("commit succeeded, push failed", "warning", <<>>)>>,
     logged |-> <<Entry("commit succeeded", message), Entry("push failed", output)>>]

\* on_commit_push: what it reports when both succeed.
push_succeeded_report(message) ==
    [notes |-> <<Note("commit and push succeeded", "information", <<>>)>>,
     logged |-> <<Entry("commit succeeded", message), Entry("push succeeded", <<>>)>>]

\* Mutant: the push is attempted whatever the commit did.
on_commit_push_always_pushes ==
    /\ "GitCommit" \in mounted
    /\ LET message == strip(commit_message)
       IN  IF message = <<>>
           THEN /\ Ran("on_commit_push", <<>>,
                       <<Note("enter a commit message", "warning", <<>>)>>, <<>>)
                /\ UNCHANGED <<repo, commitVars>>
           ELSE \E pc \in CommitOutcomes(repo) :
                  LET res == run_git_command(pc)
                      after == IF res[1] THEN git_commit(repo) ELSE repo
                  IN  /\ repo' = after
                      /\ \E pp \in Outcomes(<<>>) :
                           LET pushed == run_git_command(pp)
                               cs == <<Call("commit -m", message, 0, res[1]),
                                       Call("push", <<>>, 0, pushed[1])>>
                           IN  IF pushed[1]
                               THEN /\ commit_message' = <<>>
                                    /\ \E p \in Outcomes(StatusStdout(after)) :
                                         /\ changes_summary' = update_summary(p)
                                         /\ Ran("on_commit_push",
                                                cs \o <<SummaryCall(p)>>,
                                                push_succeeded_report(message).notes,
                                                push_succeeded_report(message).logged)
                               ELSE /\ UNCHANGED commitVars
                                    /\ Ran("on_commit_push", cs,
                                           push_failed_report(message, pushed[2]).notes,
                                           push_failed_report(message, pushed[2]).logged)
    /\ UNCHANGED <<runVars, mounted, statusVars, logVars, branchVars, current>>

\* Mutant: the message is cleared as soon as the commit has succeeded.
on_commit_push_clears_after_commit ==
    /\ "GitCommit" \in mounted
    /\ LET message == strip(commit_message)
       IN  IF message = <<>>
           THEN /\ Ran("on_commit_push", <<>>,
                       <<Note("enter a commit message", "warning", <<>>)>>, <<>>)
                /\ UNCHANGED <<repo, commitVars>>
           ELSE \E pc \in CommitOutcomes(repo) :
                  LET res == run_git_command(pc)
                  IN  IF ~res[1]
                      THEN /\ UNCHANGED <<repo, commitVars>>
                           /\ Ran("on_commit_push",
                                  <<Call("commit -m", message, 0, FALSE)>>,
                                  commit_failed_report(res[2]).notes,
                                  commit_failed_report(res[2]).logged)
                      ELSE /\ repo' = git_commit(repo)
                           /\ commit_message' = <<>>
                           /\ \E pp \in Outcomes(<<>>) :
                                LET pushed == run_git_command(pp)
                                    cs == <<Call("commit -m", message, 0, TRUE),
                                            Call("push", <<>>, 0, pushed[1])>>
                                IN  IF pushed[1]
                                    THEN \E p \in Outcomes(StatusStdout(git_commit(repo))) :
                                           /\ changes_summary' = update_summary(p)
                                           /\ Ran("on_commit_push",
                                                  cs \o <<SummaryCall(p)>>,
                                                  push_succeeded_report(message).notes,
                                                  push_succeeded_report(message).logged)
                                    ELSE /\ UNCHANGED changes_summary
                                         /\ Ran("on_commit_push", cs,
                                                push_failed_report(message, pushed[2]).notes,
                                                push_failed_report(message, pushed[2]).logged)
    /\ UNCHANGED <<runVars, mounted, statusVars, logVars, branchVars, current>>

\* GitCommit.on_commit_push
on_commit_push ==
    /\ "GitCommit" \in mounted
    /\ LET message == strip(commit_message)
       IN  IF message = <<>>
           THEN /\ Ran("on_commit_push", <<>>,
                       <<Note("enter a commit message", "warning", <<>>)>>, <<>>)
                /\ UNCHANGED <<repo, commitVars>>
           ELSE \E pc \in CommitOutcomes(repo) :
                  LET res == run_git_command(pc)
                  IN  IF ~res[1]
                      THEN /\ UNCHANGED <<repo, commitVars>>
                           /\ Ran("on_commit_push",
                                  <<Call("commit -m", message, 0, FALSE)>>,
                                  commit_failed_report(res[2]).notes,
                                  commit_failed_report(res[2]).logged)
                      ELSE /\ repo' = git_commit(repo)
                           /\ \E pp \in Outcomes(<<>>) :
                                LET pushed == run_git_command(pp)
                                    cs == <<Call("commit -m", message, 0, TRUE),
                                            Call("push", <<>>, 0, pushed[1])>>
                                IN  IF pushed[1]
                                    THEN /\ commit_message' = <<>>
                                         /\ \E p \in Outcomes(StatusStdout(git_commit(repo))) :
                                              /\ changes_summary' = update_summary(p)
                                              /\ Ran("on_commit_push",
                                                     cs \o <<SummaryCall(p)>>,
                                                     push_succeeded_report(message).notes,
                                                     push_succeeded_report(message).logged)
                                    ELSE /\ UNCHANGED commitVars
                                         /\ Ran("on_commit_push", cs,
                                                push_failed_report(message, pushed[2]).notes,
                                                push_failed_report(message, pushed[2]).logged)
    /\ UNCHANGED <<runVars, mounted, statusVars, logVars, branchVars, current>>

\* GitCommit.on_undo_commit
on_undo_commit ==
    /\ "GitCommit" \in mounted
    /\ \E pm \in Outcomes(<<>>) :
         LET res == run_git_command(pm)
         IN  IF res[1]
             THEN \E after \in git_undo(repo) :
                    /\ repo' = after
                    /\ \E p \in Outcomes(StatusStdout(after)) :
                         /\ changes_summary' = update_summary(p)
                         /\ Ran("on_undo_commit",
                                <<Call("reset --soft HEAD~1", <<>>, 0, TRUE),
                                  SummaryCall(p)>>,
                                <<Note("undid the last commit", "information", <<>>)>>,
                                <<Entry("undid the last commit", <<>>)>>)
             ELSE /\ UNCHANGED <<repo, changes_summary>>
                  /\ Ran("on_undo_commit",
                         <<Call("reset --soft HEAD~1", <<>>, 0, FALSE)>>,
                         <<Note("operation failed", "error", <<>>)>>,
                         <<Entry("operation failed", res[2])>>)
    /\ UNCHANGED <<runVars, mounted, statusVars, logVars, branchVars,
                   commit_message, current>>

\* Mutant: the message is passed with -m whether or not it is empty.
on_amend_commit_always_message ==
    /\ "GitCommit" \in mounted
    /\ \E pm \in Outcomes(<<>>) :
         LET message == strip(commit_message)
             res == run_git_command(pm)
         IN  IF res[1]
             THEN /\ repo' = git_commit(repo)
                  /\ commit_message' = <<>>
                  /\ UNCHANGED changes_summary
                  /\ Ran("on_amend_commit",
                         <<Call("commit --amend -m", message, 0, TRUE)>>,
                         <<Note("amended the last commit", "information", <<>>)>>,
                         <<Entry("amended the last commit", <<>>)>>)
             ELSE /\ UNCHANGED <<repo, commitVars>>
                  /\ Ran("on_amend_commit",
                         <<Call("commit --amend -m", message, 0, FALSE)>>,
                         <<Note("operation failed", "error", <<>>)>>,
                         <<Entry("operation failed", res[2])>>)
    /\ UNCHANGED <<runVars, mounted, statusVars, logVars, branchVars, current>>

\* GitCommit.on_amend_commit
on_amend_commit ==
    /\ "GitCommit" \in mounted
    /\ \E pm \in Outcomes(<<>>) :
         LET message == strip(commit_message)
             cmd == IF message # <<>> THEN "commit --amend -m"
                    ELSE "commit --amend --no-edit"
             res == run_git_command(pm)
         IN  IF res[1]
             THEN /\ repo' = git_commit(repo)
                  /\ commit_message' = <<>>
                  /\ UNCHANGED changes_summary
                  /\ Ran("on_amend_commit", <<Call(cmd, message, 0, TRUE)>>,
                         <<Note("amended the last commit", "information", <<>>)>>,
                         <<Entry("amended the last commit", <<>>)>>)
             ELSE /\ UNCHANGED <<repo, commitVars>>
                  /\ Ran("on_amend_commit", <<Call(cmd, message, 0, FALSE)>>,
                         <<Note("operation failed", "error", <<>>)>>,
                         <<Entry("operation failed", res[2])>>)
    /\ UNCHANGED <<runVars, mounted, statusVars, logVars, branchVars, current>>

\* ------------------------------------------------------------------------
\* GitLog
\* ------------------------------------------------------------------------

\* The subject length load_commits keeps.
SubjectLimit == 50

\* The length of commit detail on_row_selected keeps.
DetailLimit == 500

\* The lines of `git log --pretty=format:%h|%an|%ar|%s`, newest first, of a
\* repository with MaxCommits commits.
MaxCommits == 2
HistoryLine(i) ==
    IF i % 2 = 1 THEN <<"a", "1", "|", "A", "l", "|", "1", "d", "|", "f", "i", "x">>
    ELSE <<"b", "2", "|", "B", "o", "|", "2", "d", "|", "a", "|", "b">>

RECURSIVE JoinLines(_)
JoinLines(lines) ==
    IF lines = <<>> THEN <<>>
    ELSE IF Len(lines) = 1 THEN lines[1]
    ELSE lines[1] \o NL \o JoinLines(Tail(lines))

\* stdout of `git log -count ...` when the repository has k commits.
LogStdout(count, k) ==
    JoinLines([i \in 1..(IF count < k THEN count ELSE k) |-> HistoryLine(i)])

\* The repository may hold any number of commits up to MaxCommits.
LogOutcomes(count) == UNION { Outcomes(LogStdout(count, k)) : k \in 0..MaxCommits }

CommitRow(h, a, d, m) == [hash |-> h, author |-> a, date |-> d, message |-> m]

\* Mutant: a long subject is cut and no ellipsis is appended.
RECURSIVE commit_rows_without_ellipsis(_)
commit_rows_without_ellipsis(lines) ==
    IF lines = <<>> THEN <<>>
    ELSE LET parts == split_max(Head(lines), "|", 3)
         IN  (IF Len(parts) = 4
              THEN <<CommitRow(parts[1], parts[2], parts[3],
                               Take(parts[4], SubjectLimit))>>
              ELSE <<>>) \o commit_rows_without_ellipsis(Tail(lines))

\* The loop over output.split("\n") of load_commits.
RECURSIVE commit_rows(_)
commit_rows(lines) ==
    IF lines = <<>> THEN <<>>
    ELSE LET parts == split_max(Head(lines), "|", 3)
             message == parts[4]
         IN  (IF Len(parts) = 4
              THEN <<CommitRow(parts[1], parts[2], parts[3],
                               IF Len(message) > SubjectLimit
                               THEN Take(message, SubjectLimit) \o <<".", ".", ".">>
                               ELSE message)>>
              ELSE <<>>) \o commit_rows(Tail(lines))

\* load_commits(count), given what its invocation does: the new #log-table.
load_commits(p) ==
    LET res == run_git_command(p)
    IN  IF ~res[1] \/ res[2] = <<>> THEN <<>>
        ELSE commit_rows(split(res[2], "\n"))

\* The invocation of load_commits(count), with the text it returned.
LogCall(count, p) ==
    [cmd |-> "log", arg |-> <<>>, n |-> count, ok |-> run_git_command(p)[1],
     out |-> run_git_command(p)[2]]

\* GitLog.on_mount
GitLog_on_mount ==
    /\ "GitLog" \notin mounted
    /\ mounted' = mounted \cup {"GitLog"}
    /\ \E p \in LogOutcomes(20) :
         /\ log_table' = load_commits(p)
         /\ Ran("GitLog.on_mount", <<LogCall(20, p)>>, <<>>, <<>>)
    /\ UNCHANGED <<runVars, repo, statusVars, commit_detail, branchVars, commitVars,
                   current>>

\* Mutant: load_commits adds the rows to a table it has not cleared.
GitLog_on_refresh_without_clear ==
    /\ "GitLog" \in mounted
    /\ \E p \in LogOutcomes(20) :
         /\ log_table' = log_table \o load_commits(p)
         /\ Ran("GitLog.on_refresh", <<LogCall(20, p)>>,
                <<Note("history refreshed", "information", <<>>)>>, <<>>)
    /\ UNCHANGED <<runVars, repo, mounted, statusVars, commit_detail, branchVars,
                   commitVars, current>>

\* GitLog.on_refresh
GitLog_on_refresh ==
    /\ "GitLog" \in mounted
    /\ \E p \in LogOutcomes(20) :
         /\ log_table' = load_commits(p)
         /\ Ran("GitLog.on_refresh", <<LogCall(20, p)>>,
                <<Note("history refreshed", "information", <<>>)>>, <<>>)
    /\ UNCHANGED <<runVars, repo, mounted, statusVars, commit_detail, branchVars,
                   commitVars, current>>

\* GitLog.on_load_more
on_load_more ==
    /\ "GitLog" \in mounted
    /\ LET current_count == Len(log_table)
       IN  \E p \in LogOutcomes(current_count + 20) :
             /\ log_table' = load_commits(p)
             /\ Ran("on_load_more", <<LogCall(current_count + 20, p)>>,
                    <<Note("records loaded", "information", <<>>)>>, <<>>)
    /\ UNCHANGED <<runVars, repo, mounted, statusVars, commit_detail, branchVars,
                   commitVars, current>>

\* stdout of `git show --stat <hash>`.
ShowStdout(hash) == <<"c", "o", "m", "m", "i", "t", " ">> \o hash \o NL

\* GitLog.on_row_selected
on_row_selected ==
    /\ "GitLog" \in mounted
    /\ \E cursor_row \in 1..Len(log_table) :
         LET hash_val == log_table[cursor_row].hash
         IN  \E p \in Outcomes(ShowStdout(hash_val)) :
               LET res == run_git_command(p)
               IN  /\ commit_detail' =
                        (IF ~res[1] THEN commit_detail
                         ELSE IF Len(res[2]) > DetailLimit
                         THEN Take(res[2], DetailLimit) \o <<".", ".", ".">>
                         ELSE res[2])
                   /\ Ran("on_row_selected",
                          <<Call("show --stat", hash_val, 0, res[1])>>, <<>>, <<>>)
    /\ UNCHANGED <<runVars, repo, mounted, statusVars, log_table, branchVars,
                   commitVars, current>>

\* ------------------------------------------------------------------------
\* GitBranches
\* ------------------------------------------------------------------------

\* The length of "hash subject" refresh_branches keeps.
SummaryLimit == 40

BranchLine(r, name, rest) ==
    (IF r.branch = name THEN <<"*", " ">> ELSE <<" ", " ">>) \o name \o rest \o NL

\* stdout of `git branch -v`.
BranchVStdout(r) ==
    (IF r.dev THEN BranchLine(r, Dev, <<" ", "d", "2", " ", "w", "i", "p">>) ELSE <<>>)
    \o BranchLine(r, Main, <<" ", "c", "1", " ", "i", "n", "i", "t">>)

\* stdout of `git branch -r`.
BranchRStdout ==
    <<" ", " ", "o", "/", "H", " ", "-", ">", " ", "o", "/", "m", "\n",
      " ", " ", "o", "/", "m", "\n">>

LocalRow(cur, name, summary) == [current |-> cur, name |-> name, summary |-> summary]

\* Mutant: a line needs a subject field as well to give an entry.
RECURSIVE local_rows_needs_subject(_)
local_rows_needs_subject(lines) ==
    IF lines = <<>> THEN <<>>
    ELSE LET line == strip(Head(lines))
             parts == split_ws(lstrip_chars(line, {"*", " "}), 2)
         IN  (IF line # <<>> /\ Len(parts) >= 3
              THEN <<LocalRow(line # <<>> /\ Head(line) = "*", parts[1],
                              Take(parts[2] \o <<" ">> \o parts[3], SummaryLimit))>>
              ELSE <<>>) \o local_rows_needs_subject(Tail(lines))

\* The loop over the lines of `branch -v` of refresh_branches.
RECURSIVE local_rows(_)
local_rows(lines) ==
    IF lines = <<>> THEN <<>>
    ELSE LET line == strip(Head(lines))
             is_current == line # <<>> /\ Head(line) = "*"
             parts == split_ws(lstrip_chars(line, {"*", " "}), 2)
             commit_info == parts[2]
             message == IF Len(parts) > 2 THEN parts[3] ELSE <<>>
         IN  (IF line # <<>> /\ Len(parts) >= 2
              THEN <<LocalRow(is_current, parts[1],
                              Take(commit_info \o <<" ">> \o message, SummaryLimit))>>
              ELSE <<>>) \o local_rows(Tail(lines))

\* Mutant: the lines that hold `->` are kept.
RECURSIVE remote_rows_keeps_pointers(_)
remote_rows_keeps_pointers(lines) ==
    IF lines = <<>> THEN <<>>
    ELSE LET branch == strip(Head(lines))
         IN  (IF branch # <<>> THEN <<branch>> ELSE <<>>)
                 \o remote_rows_keeps_pointers(Tail(lines))

\* The loop over the lines of `branch -r` of refresh_branches.
RECURSIVE remote_rows(_)
remote_rows(lines) ==
    IF lines = <<>> THEN <<>>
    ELSE LET branch == strip(Head(lines))
         IN  (IF branch # <<>> /\ ~Contains(branch, <<"-", ">">>)
              THEN <<branch>> ELSE <<>>) \o remote_rows(Tail(lines))

\* refresh_branches, given what its two invocations do: the new tables and
\* the invocations made.
refresh_branches(p_local, p_remote) ==
    LET loc == run_git_command(p_local)
        rem == run_git_command(p_remote)
    IN  [local |-> IF loc[1] /\ loc[2] # <<>>
                   THEN local_rows(split(loc[2], "\n")) ELSE <<>>,
         remote |-> IF rem[1] /\ rem[2] # <<>>
                    THEN remote_rows(split(rem[2], "\n")) ELSE <<>>,
         calls |-> << Call("branch -v", <<>>, 0, loc[1]),
                      Call("branch -r", <<>>, 0, rem[1]) >>]

BranchProcs(r) == Outcomes(BranchVStdout(r)) \X Outcomes(BranchRStdout)

SetBranches(ref) ==
    /\ local_table' = ref.local
    /\ remote_table' = ref.remote

\* GitBranches.on_mount
GitBranches_on_mount ==
    /\ "GitBranches" \notin mounted
    /\ mounted' = mounted \cup {"GitBranches"}
    /\ \E ps \in BranchProcs(repo) :
         LET ref == refresh_branches(ps[1], ps[2])
         IN  SetBranches(ref) /\ Ran("GitBranches.on_mount", ref.calls, <<>>, <<>>)
    /\ UNCHANGED <<runVars, repo, statusVars, logVars, new_branch_input, commitVars,
                   current>>

\* GitBranches.on_refresh
GitBranches_on_refresh ==
    /\ "GitBranches" \in mounted
    /\ \E ps \in BranchProcs(repo) :
         LET ref == refresh_branches(ps[1], ps[2])
         IN  /\ SetBranches(ref)
             /\ Ran("GitBranches.on_refresh", ref.calls,
                    <<Note("branches refreshed", "information", <<>>)>>, <<>>)
    /\ UNCHANGED <<runVars, repo, mounted, statusVars, logVars, new_branch_input,
                   commitVars, current>>

\* GitBranches.on_pull
on_pull ==
    /\ "GitBranches" \in mounted
    /\ \E pm \in Outcomes(<<>>) :
         LET res == run_git_command(pm)
             pulling == Note("pulling", "information", <<>>)
         IN  IF res[1]
             THEN \E ps \in BranchProcs(repo) :
                    LET ref == refresh_branches(ps[1], ps[2])
                    IN  /\ SetBranches(ref)
                        /\ Ran("on_pull", <<Call("pull", <<>>, 0, TRUE)>> \o ref.calls,
                               <<pulling, Note("pull succeeded", "information", <<>>)>>,
                               <<>>)
             ELSE /\ UNCHANGED <<local_table, remote_table>>
                  /\ Ran("on_pull", <<Call("pull", <<>>, 0, FALSE)>>,
                         <<pulling, Note("pull failed", "error", Take(res[2], 50))>>,
                         <<>>)
    /\ UNCHANGED <<runVars, repo, mounted, statusVars, logVars, new_branch_input,
                   commitVars, current>>

\* GitBranches.on_push
on_push ==
    /\ "GitBranches" \in mounted
    /\ \E pm \in Outcomes(<<>>) :
         LET res == run_git_command(pm)
             pushing == Note("pushing", "information", <<>>)
         IN  Ran("on_push", <<Call("push", <<>>, 0, res[1])>>,
                 IF res[1]
                 THEN <<pushing, Note("push succeeded", "information", <<>>)>>
                 ELSE <<pushing, Note("push failed", "error", Take(res[2], 50))>>,
                 <<>>)
    /\ UNCHANGED <<runVars, repo, mounted, statusVars, logVars, branchVars,
                   commitVars, current>>

\* What the user may type into #new-branch-input.
NewBranchNames == { <<>>, <<" ">>, <<"d", "e", "v", " ">> }

\* The user edits the new branch name.
type_branch_name ==
    /\ "GitBranches" \in mounted
    /\ \E n \in NewBranchNames : new_branch_input' = n
    /\ new_branch_input' # new_branch_input
    /\ Ran("input", <<>>, <<>>, <<>>)
    /\ UNCHANGED <<runVars, repo, mounted, statusVars, logVars, local_table,
                   remote_table, commitVars, current>>

\* `git checkout -b <name>` exits nonzero when the branch exists.
CreateOutcomes(r, name) ==
    IF name = Main \/ (name = Dev /\ r.dev) THEN Failures ELSE Outcomes(<<>>)

\* GitBranches.on_create_branch
on_create_branch ==
    /\ "GitBranches" \in mounted
    /\ LET branch_name == strip(new_branch_input)
       IN  IF branch_name = <<>>
           THEN /\ Ran("on_create_branch", <<>>,
                       <<Note("enter a branch name", "warning", <<>>)>>, <<>>)
                /\ UNCHANGED <<repo, branchVars>>
           ELSE \E pm \in CreateOutcomes(repo, branch_name) :
                  LET res == run_git_command(pm)
                      after == git_checkout(repo, branch_name)
                  IN  IF res[1]
                      THEN /\ repo' = after
                           /\ new_branch_input' = <<>>
                           /\ \E ps \in BranchProcs(after) :
                                LET ref == refresh_branches(ps[1], ps[2])
                                IN  /\ SetBranches(ref)
                                    /\ Ran("on_create_branch",
                                           <<Call("checkout -b", branch_name, 0, TRUE)>>
                                             \o ref.calls,
                                           <<Note("created and switched to branch",
                                                  "information", branch_name)>>,
                                           <<>>)
                      ELSE /\ UNCHANGED <<repo, branchVars>>
                           /\ Ran("on_create_branch",
                                  <<Call("checkout -b", branch_name, 0, FALSE)>>,
                                  <<Note("create failed", "error", res[2])>>, <<>>)
    /\ UNCHANGED <<runVars, mounted, statusVars, logVars, commitVars, current>>

\* Mutant: a successful checkout moves the current mark in the table and
\* fetches nothing.
on_branch_selected_marks_locally ==
    /\ "GitBranches" \in mounted
    /\ \E cursor_row \in 1..Len(local_table) :
         LET branch_name == local_table[cursor_row].name
         IN  \E pm \in Outcomes(<<>>) :
               LET res == run_git_command(pm)
               IN  IF res[1]
                   THEN /\ repo' = git_checkout(repo, branch_name)
                        /\ local_table' =
                              [i \in 1..Len(local_table) |->
                                 [local_table[i] EXCEPT !.current = (i = cursor_row)]]
                        /\ UNCHANGED remote_table
                        /\ Ran("on_branch_selected",
                               <<Call("checkout", branch_name, 0, TRUE)>>,
                               <<Note("switched to branch", "information",
                                      branch_name)>>,
                               <<>>)
                   ELSE /\ UNCHANGED <<repo, local_table, remote_table>>
                        /\ Ran("on_branch_selected",
                               <<Call("checkout", branch_name, 0, FALSE)>>,
                               <<Note("switch failed", "error", res[2])>>, <<>>)
    /\ UNCHANGED <<runVars, mounted, statusVars, logVars, new_branch_input,
                   commitVars, current>>

\* GitBranches.on_branch_selected
on_branch_selected ==
    /\ "GitBranches" \in mounted
    /\ \E cursor_row \in 1..Len(local_table) :
         LET branch_name == local_table[cursor_row].name
         IN  \E pm \in Outcomes(<<>>) :
               LET res == run_git_command(pm)
                   after == git_checkout(repo, branch_name)
               IN  IF res[1]
                   THEN /\ repo' = after
                        /\ \E ps \in BranchProcs(after) :
                             LET ref == refresh_branches(ps[1], ps[2])
                             IN  /\ SetBranches(ref)
                                 /\ Ran("on_branch_selected",
                                        <<Call("checkout", branch_name, 0, TRUE)>>
                                          \o ref.calls,
                                        <<Note("switched to branch", "information",
                                               branch_name)>>,
                                        <<>>)
                   ELSE /\ UNCHANGED <<repo, local_table, remote_table>>
                        /\ Ran("on_branch_selected",
                               <<Call("checkout", branch_name, 0, FALSE)>>,
                               <<Note("switch failed", "error", res[2])>>, <<>>)
    /\ UNCHANGED <<runVars, mounted, statusVars, logVars, new_branch_input,
                   commitVars, current>>

\* ------------------------------------------------------------------------
\* GitTUI
\* ------------------------------------------------------------------------

Tabs == { "content-status", "content-log", "content-branches", "content-commit" }

\* GitTUI.action_show_status, action_show_log, action_show_branches and
\* action_show_commit, and on_tab_activated.
action_show ==
    /\ \E c \in Tabs : current' = c
    /\ current' # current
    /\ Ran("action_show", <<>>, <<>>, <<>>)
    /\ UNCHANGED <<runVars, repo, mounted, statusVars, logVars, branchVars, commitVars>>

\* The panel a tab shows.
PanelOf(c) ==
    CASE c = "content-status" -> "GitStatus" [] c = "content-log" -> "GitLog"
      [] c = "content-branches" -> "GitBranches" [] c = "content-commit" -> "GitCommit"

Refreshed == <<Note("refreshed", "information", <<>>)>>

\* GitTUI.action_refresh
action_refresh ==
    /\ PanelOf(current) \in mounted
    /\ CASE current = "content-status" ->
              /\ \E ps \in StatusProcs(repo) :
                   LET ref == refresh_status(ps[1], ps[2], ps[3])
                   IN  SetStatus(ref) /\ Ran("action_refresh", ref.calls, Refreshed, <<>>)
              /\ UNCHANGED <<logVars, branchVars, commitVars>>
         [] current = "content-log" ->
              /\ \E p \in LogOutcomes(20) :
                   /\ log_table' = load_commits(p)
                   /\ Ran("action_refresh", <<LogCall(20, p)>>, Refreshed, <<>>)
              /\ UNCHANGED <<statusVars, commit_detail, branchVars, commitVars>>
         [] current = "content-branches" ->
              /\ \E ps \in BranchProcs(repo) :
                   LET ref == refresh_branches(ps[1], ps[2])
                   IN  SetBranches(ref) /\ Ran("action_refresh", ref.calls, Refreshed, <<>>)
              /\ UNCHANGED <<statusVars, logVars, new_branch_input, commitVars>>
         [] current = "content-commit" ->
              /\ \E p \in Outcomes(StatusStdout(repo)) :
                   /\ changes_summary' = update_summary(p)
                   /\ Ran("action_refresh", <<SummaryCall(p)>>, Refreshed, <<>>)
              /\ UNCHANGED <<statusVars, logVars, branchVars, commit_message>>
    /\ UNCHANGED <<runVars, repo, mounted, current>>

\* ------------------------------------------------------------------------
\* Specifications
\* ------------------------------------------------------------------------

NoProc == MkProc(TRUE, 0, <<>>, <<>>, <<>>)

\* The application after construction, before any panel is mounted.
Init ==
    /\ proc = NoProc
    /\ result = <<>>
    /\ repo \in Repos
    /\ mounted = {}
    /\ repo_info = NoInfo
    /\ staged_table = <<>>
    /\ unstaged_table = <<>>
    /\ untracked_table = <<>>
    /\ log_table = <<>>
    /\ commit_detail = <<>>
    /\ local_table = <<>>
    /\ remote_table = <<>>
    /\ new_branch_input = <<>>
    /\ changes_summary = NoSummary
    /\ commit_message = <<>>
    /\ current = "content-status"
    /\ handler = "none"
    /\ calls = <<>>
    /\ notes = <<>>
    /\ logged = <<>>
    /\ text = <<>>
    /\ pending = <<>>
    /\ in_flight = <<>>

StatusNext ==
    \/ GitStatus_on_mount
    \/ GitStatus_on_refresh
    \/ on_stage_all
    \/ on_unstage_all

LogNext ==
    \/ GitLog_on_mount
    \/ GitLog_on_refresh
    \/ on_load_more
    \/ on_row_selected

BranchesNext ==
    \/ GitBranches_on_mount
    \/ GitBranches_on_refresh
    \/ on_pull
    \/ on_push
    \/ type_branch_name
    \/ on_create_branch
    \/ on_branch_selected

CommitNext ==
    \/ GitCommit_on_mount
    \/ type_commit_message
    \/ on_commit
    \/ on_commit_push
    \/ on_undo_commit
    \/ on_amend_commit

\* The panels share no widget: a handler reads and writes its own panel, the
\* repository and the record of the run.  Spec explores the sessions in which
\* one panel is mounted and used, together with the application's own key
\* bindings; the specifications below it are the sessions of a single panel.
Only(panel) == mounted \subseteq {panel}

Next ==
    \/ Only("GitStatus") /\ StatusNext
    \/ Only("GitLog") /\ LogNext
    \/ Only("GitBranches") /\ BranchesNext
    \/ Only("GitCommit") /\ CommitNext
    \/ action_show
    \/ action_refresh

Spec == Init /\ [][Next]_vars

SpecStatus == Init /\ [][StatusNext]_vars
SpecLog == Init /\ [][LogNext]_vars
SpecBranches == Init /\ [][BranchesNext]_vars
SpecCommit == Init /\ [][CommitNext]_vars

\* The status panel and the commit panel in one session: both show the
\* working tree (of a repository whose only branch is main).
InitWorkingTree == Init /\ repo.branch = Main /\ ~repo.dev
WorkingTreeNext == StatusNext \/ CommitNext
SpecWorkingTree == InitWorkingTree /\ [][WorkingTreeNext]_vars

\* The status panel and the branches panel in one session: both show the
\* current branch (of a repository with a clean working tree).
InitCurrentBranch == Init /\ repo.a = CleanXY /\ repo.b = CleanXY
CurrentBranchNext == StatusNext \/ BranchesNext
SpecCurrentBranch == InitCurrentBranch /\ [][CurrentBranchNext]_vars

\* run_git_command alone: every outcome of subprocess.run over short texts.
MaxLen == 3
RunAlphabet == { " ", "a", "\n" }
RunTexts == UNION { [1..n -> RunAlphabet] : n \in 0..MaxLen }
ReturnCodes == { 0, 1, -9 }
RunProcs ==
    { MkProc(TRUE, rc, out, err, <<>>) :
        rc \in ReturnCodes, out \in RunTexts, err \in RunTexts }
    \cup { MkProc(FALSE, 0, <<>>, <<>>, e) : e \in RunTexts }

InitRun ==
    /\ proc \in RunProcs
    /\ result = <<>>
    /\ repo \in { r \in Repos : r.a = CleanXY /\ r.b = CleanXY /\ ~r.dev }
    /\ mounted = {}
    /\ repo_info = NoInfo
    /\ staged_table = <<>>
    /\ unstaged_table = <<>>
    /\ untracked_table = <<>>
    /\ log_table = <<>>
    /\ commit_detail = <<>>
    /\ local_table = <<>>
    /\ remote_table = <<>>
    /\ new_branch_input = <<>>
    /\ changes_summary = NoSummary
    /\ commit_message = <<>>
    /\ current = "content-status"
    /\ handler = "none"
    /\ calls = <<>>
    /\ notes = <<>>
    /\ logged = <<>>
    /\ text = <<>>
    /\ pending = <<>>
    /\ in_flight = <<>>

\* One call of run_git_command.
Invoke ==
    /\ result = <<>>
    /\ result' = run_git_command(proc)
    /\ UNCHANGED <<proc, text, pending, in_flight, repo, mounted, statusVars, logVars,
                   branchVars, commitVars, current, traceVars>>

SpecRun == InitRun /\ [][Invoke]_vars

\* The parsing loops alone, over the texts a tool could print: at most
\* MaxLines lines, joined by "\n".
MaxLines == 2
LinesOf(set) == UNION { [1..n -> set] : n \in 0..MaxLines }
TextsOf(set) == { JoinLines(ls) : ls \in LinesOf(set) }

\* Lines of `git status --porcelain`: XY, a separator and a path, and lines
\* too short to hold the three.
IndexCodes == { "M", "A", "D", "R", "C", "?", " " }
WorktreeCodes == { "M", "D", "?", " " }
StatusLines ==
    { <<x, y, " ", "a">> : x \in IndexCodes, y \in WorktreeCodes }
        \cup { <<>>, <<"M">>, <<"M", "M">>, <<"?", "?", " ">> }
StatusTexts == TextsOf(StatusLines)

\* Lines of `git log --pretty=format:%h|%an|%ar|%s`: subjects that are empty,
\* short, hold the delimiter, or reach and pass the length load_commits
\* keeps; and lines with fewer than three delimiters.
Filled(n) == [i \in 1..n |-> "x"]
Subjects ==
    { <<>>, <<"f">>, <<"a", "|", "b">>, <<"|">>, Filled(SubjectLimit),
      Filled(SubjectLimit + 1), Filled(SubjectLimit - 1) \o <<"|", "y", "z">> }
HistoryLines ==
    { h \o <<"|", "A", "|", "1", "d", "|">> \o s : h \in { <<>>, <<"h">> }, s \in Subjects }
        \cup { <<>>, <<"h">>, <<"h", "|", "A">>, <<"h", "|", "A", "|", "1", "d">> }
HistoryTexts == TextsOf(HistoryLines)

\* Lines of `git branch -v` and `git branch -r`: a marker or indentation,
\* then one to four fields, a pointer line, or nothing.
BranchMarkers == { <<"*", " ">>, <<" ", " ">>, <<>> }
BranchFields ==
    { <<>>, <<"m">>, <<"m", " ">>, <<"m", " ", "c">>,
      <<"f", "/", "x", " ", " ", "c", " ", "i", " ", "j">>,
      <<"o", "/", "H", " ", "-", ">", " ", "o", "/", "m">>, <<"o", "/", "m">> }
BranchLines == { m \o f : m \in BranchMarkers, f \in BranchFields }
BranchTexts == TextsOf(BranchLines)

InitParse ==
    /\ text \in StatusTexts \cup HistoryTexts \cup BranchTexts
    /\ proc = NoProc
    /\ result = <<>>
    /\ repo \in { r \in Repos : r.a = CleanXY /\ r.b = CleanXY /\ ~r.dev }
    /\ mounted = {}
    /\ repo_info = NoInfo
    /\ staged_table = <<>>
    /\ unstaged_table = <<>>
    /\ untracked_table = <<>>
    /\ log_table = <<>>
    /\ commit_detail = <<>>
    /\ local_table = <<>>
    /\ remote_table = <<>>
    /\ new_branch_input = <<>>
    /\ changes_summary = NoSummary
    /\ commit_message = <<>>
    /\ current = "content-status"
    /\ handler = "none"
    /\ calls = <<>>
    /\ notes = <<>>
    /\ logged = <<>>
    /\ pending = <<>>
    /\ in_flight = <<>>

\* The loop of refresh_status over the lines of text.
status_loop ==
    /\ handler = "none"
    /\ text \in StatusTexts
    /\ LET rows == status_rows(split(text, "\n"))
       IN  /\ staged_table' = rows.staged
           /\ unstaged_table' = rows.unstaged
           /\ untracked_table' = rows.untracked
    /\ Ran("status_loop", <<>>, <<>>, <<>>)
    /\ UNCHANGED <<runVars, repo, mounted, repo_info, logVars, branchVars, commitVars,
                   current>>

\* The loop of load_commits over the lines of text.
history_loop ==
    /\ handler = "none"
    /\ text \in HistoryTexts
    /\ log_table' = commit_rows(split(text, "\n"))
    /\ Ran("history_loop", <<>>, <<>>, <<>>)
    /\ UNCHANGED <<runVars, repo, mounted, statusVars, commit_detail, branchVars,
                   commitVars, current>>

\* refresh_branches when both listings print text, or fail.
branches_of_text ==
    /\ handler = "none"
    /\ text \in BranchTexts
    /\ \E ps \in Outcomes(text) \X Outcomes(text) :
         LET ref == refresh_branches(ps[1], ps[2])
         IN  SetBranches(ref) /\ Ran("refresh_branches", ref.calls, <<>>, <<>>)
    /\ UNCHANGED <<runVars, repo, mounted, statusVars, logVars, new_branch_input,
                   commitVars, current>>

\* The counting of update_summary over the lines of text.
summary_of_text ==
    /\ changes_summary = NoSummary
    /\ text \in StatusTexts
    /\ changes_summary' = summary_counts(text)
    /\ UNCHANGED <<runVars, repo, mounted, statusVars, logVars, branchVars,
                   commit_message, current, traceVars>>

ParseNext ==
    \/ status_loop
    \/ history_loop
    \/ branches_of_text
    \/ summary_of_text

SpecParse == InitParse /\ [][ParseNext]_vars

\* The status panel under the event loop.  Key and button presses are posted
\* at any moment; a handler is a plain method, so it runs from its first line
\* to its return before the loop takes the next press.  Here a handler that
\* refreshes the status takes two steps: up to the clearing of the three
\* tables, and from there (the rows added, the notification) to its return.
MaxPending == 2
Events == { "key r", "press refresh-status", "press stage-all" }

HandlerOf(e) ==
    CASE e = "key r" -> "action_refresh"
      [] e = "press refresh-status" -> "GitStatus.on_refresh"
      [] e = "press stage-all" -> "on_stage_all"

NotesOf(e) ==
    CASE e = "key r" -> Refreshed
      [] e = "press refresh-status" -> <<Note("status refreshed", "information", <<>>)>>
      [] e = "press stage-all" -> <<Note("staged all changes", "information", <<>>)>>

\* A key or button press arrives.
post_event ==
    /\ "GitStatus" \in mounted
    /\ Len(pending) < MaxPending
    /\ \E e \in Events : pending' = Append(pending, e)
    /\ UNCHANGED <<proc, result, text, in_flight, repo, mounted, statusVars, logVars,
                   branchVars, commitVars, current, traceVars>>

\* The handler of press e from its first line to the clearing of the tables
\* in refresh_status (or to its return, when it does not get there).
StartHandler(e) ==
    \E pm \in (IF e = "press stage-all" THEN Outcomes(<<>>) ELSE { NoProc }) :
        LET res == run_git_command(pm)
            first == IF e = "press stage-all"
                     THEN <<Call("add -A", <<>>, 0, res[1])>> ELSE <<>>
            now == IF e = "press stage-all" THEN git_add(repo) ELSE repo
        IN  IF ~res[1]
            THEN /\ Ran(HandlerOf(e), first,
                        <<Note("stage failed", "error", res[2])>>, <<>>)
                 /\ UNCHANGED <<repo, statusVars, in_flight>>
            ELSE /\ repo' = now
                 /\ \E ps \in StatusProcs(now) :
                      LET ref == refresh_status(ps[1], ps[2], ps[3])
                      IN  /\ repo_info' = ref.repo_info
                          /\ IF ref.repo_info = NotARepo
                             THEN UNCHANGED <<staged_table, unstaged_table,
                                              untracked_table>>
                             ELSE /\ staged_table' = <<>>
                                  /\ unstaged_table' = <<>>
                                  /\ untracked_table' = <<>>
                          /\ in_flight' =
                                Append(in_flight,
                                       [handler |-> HandlerOf(e), ref |-> ref,
                                        calls |-> first \o ref.calls,
                                        notes |-> NotesOf(e)])
                 /\ UNCHANGED traceVars

\* Mutant: the loop starts the handler of the next press while a handler
\* has yet to add its rows.
handle_event_reentrant ==
    /\ pending # <<>>
    /\ current = "content-status"
    /\ pending' = Tail(pending)
    /\ StartHandler(Head(pending))
    /\ UNCHANGED <<proc, result, text, mounted, logVars, branchVars, commitVars,
                   current>>

\* The loop takes the next press when no handler is running.
handle_event ==
    /\ in_flight = <<>>
    /\ pending # <<>>
    /\ current = "content-status"
    /\ pending' = Tail(pending)
    /\ StartHandler(Head(pending))
    /\ UNCHANGED <<proc, result, text, mounted, logVars, branchVars, commitVars,
                   current>>

\* refresh_status adds the rows, and the handler notifies and returns.
add_rows ==
    /\ \E i \in 1..Len(in_flight) :
         /\ SetStatus(in_flight[i].ref)
         /\ Ran(in_flight[i].handler, in_flight[i].calls, in_flight[i].notes, <<>>)
         /\ in_flight' = SubSeq(in_flight, 1, i - 1) \o SubSeq(in_flight, i + 1, Len(in_flight))
    /\ UNCHANGED <<proc, result, text, pending, repo, mounted, logVars, branchVars,
                   commitVars, current>>

LoopNext ==
    \/ GitStatus_on_mount
    \/ post_event
    \/ handle_event
    \/ add_rows

SpecLoop == Init /\ [][LoopNext]_vars

\* ------------------------------------------------------------------------
\* Properties
\* ------------------------------------------------------------------------

HasCall(cs, cmds) == \E i \in 1..Len(cs) : cs[i].cmd \in cmds
HasFailed(cs, cmds) == \E i \in 1..Len(cs) : cs[i].cmd \in cmds /\ ~cs[i].ok
HasSucceeded(cs, cmds) == \E i \in 1..Len(cs) : cs[i].cmd \in cmds /\ cs[i].ok

StatusFetches == { "rev-parse --show-toplevel", "branch --show-current",
                   "status --porcelain" }
HistoryFetches == { "log" }
BranchFetches == { "branch -v", "branch -r" }
SummaryFetches == { "status --short" }
Fetches ==
    StatusFetches \cup HistoryFetches \cup BranchFetches \cup SummaryFetches
        \cup { "show --stat" }
Mutations == { "add -A", "reset HEAD", "checkout -b", "checkout", "commit -m",
               "commit --amend -m", "commit --amend --no-edit",
               "reset --soft HEAD~1", "pull", "push" }

FileTables == <<staged_table, unstaged_table, untracked_table>>

\* C1: a status refresh in which an invocation fails leaves the staged,
\* unstaged and untracked collections as they were before the refresh.
C1_FailedStatusRefreshKeepsFiles ==
    [][HasFailed(calls', StatusFetches) => FileTables' = FileTables]_vars

\* C9: after a refresh whose repo-root lookup fails, the status view shows
\* the not-a-repository state and none of the file entries of an earlier
\* refresh.
C9_NotARepositoryShowsNoFiles ==
    HasFailed(calls, {"rev-parse --show-toplevel"})
        => /\ repo_info = NotARepo
           /\ staged_table = <<>>
           /\ unstaged_table = <<>>
           /\ untracked_table = <<>>

\* t is s without its leading and trailing whitespace.
IsTrimOf(t, s) ==
    /\ t # <<>> => ~IsSpace(t[1]) /\ ~IsSpace(t[Len(t)])
    /\ \E i \in 0..Len(s) :
         /\ i + Len(t) <= Len(s)
         /\ SubSeq(s, i + 1, i + Len(t)) = t
         /\ \A k \in 1..Len(s) : (k <= i \/ k > i + Len(t)) => IsSpace(s[k])

\* C10: run_git_command returns a (success, text) pair: exit code 0 gives
\* (True, trimmed stdout), a nonzero exit code gives (False, trimmed stderr)
\* and a failure to launch gives (False, the error's description); the pair
\* carries nothing that tells a launch failure from a nonzero exit.
C10_RunGitCommandResult ==
    result # <<>> =>
        /\ Len(result) = 2
        /\ result[1] \in BOOLEAN
        /\ (proc.launched /\ proc.returncode = 0)
               => result[1] /\ IsTrimOf(result[2], proc.stdout)
        /\ (proc.launched /\ proc.returncode # 0)
               => ~result[1] /\ IsTrimOf(result[2], proc.stderr)
        /\ ~proc.launched => ~result[1] /\ result[2] = proc.error

\* A nonzero exit whose standard error has text between surrounding whitespace.
C10_Witness ==
    /\ result # <<>>
    /\ proc.launched
    /\ proc.returncode # 0
    /\ result[2] # <<>>
    /\ Len(result[2]) < Len(proc.stderr)

\* C2: a history fetch or a branch refresh in which a fetch fails keeps the
\* commit sequence and the local and remote branch collections of the last
\* successful fetch (also when `branch -v` succeeds and `branch -r` fails).
C2_FailedFetchKeepsLastSnapshot ==
    [][HasFailed(calls', HistoryFetches \cup BranchFetches)
         => <<log_table, local_table, remote_table>>'
              = <<log_table, local_table, remote_table>>]_vars

CommittedNotPushed ==
    /\ handler = "on_commit_push"
    /\ HasSucceeded(calls, {"commit -m"})
    /\ HasFailed(calls, {"push"})

\* What update_summary shows when it fetches the status of repository r.
FetchedSummary(r) == update_summary(MkProc(TRUE, 0, StatusStdout(r), <<>>, <<>>))

\* C3: when commit-and-push commits and then fails to push, the counts the
\* commit view holds afterwards are the counts fetched after the commit.
C3_PartialSuccessShowsCommit ==
    CommittedNotPushed => changes_summary = FetchedSummary(repo)

HasNote(m, sev) == \E i \in 1..Len(notes) : notes[i].msg = m /\ notes[i].severity = sev
HasEntry(m) == \E i \in 1..Len(logged) : logged[i].msg = m

\* The three reports of commit-and-push, as the user sees them.
FullSuccessReport == HasNote("commit and push succeeded", "information")
CommitFailureReport == HasEntry("commit failed")
PartialSuccessReport == HasNote("commit succeeded, push failed", "warning")

\* C4: commit-and-push reports full success, commit failure and partial
\* success (committed, not pushed) so that each can be told from the two
\* others: a run shows the report of its own case and of no other case.
C4_ThreeDistinctOutcomes ==
    (handler = "on_commit_push" /\ calls # <<>>) =>
        /\ FullSuccessReport
             <=> (HasSucceeded(calls, {"commit -m"}) /\ HasSucceeded(calls, {"push"}))
        /\ CommitFailureReport <=> HasFailed(calls, {"commit -m"})
        /\ PartialSuccessReport
             <=> (HasSucceeded(calls, {"commit -m"}) /\ HasFailed(calls, {"push"}))
        /\ ~(FullSuccessReport /\ PartialSuccessReport)
        /\ ~(CommitFailureReport /\ PartialSuccessReport)
        /\ ~(CommitFailureReport /\ FullSuccessReport)

\* Commit-and-push has committed, failed to push and said so.
C4_Witness == CommittedNotPushed /\ PartialSuccessReport

\* C5: commit-and-push issues the push only after a commit of the same run
\* has succeeded; when the commit fails the run has no push and reports a
\* commit failure.
C5_PushOnlyAfterCommit ==
    handler = "on_commit_push" =>
        /\ \A i \in 1..Len(calls) :
             calls[i].cmd = "push"
                 => \E j \in 1..(i - 1) : calls[j].cmd = "commit -m" /\ calls[j].ok
        /\ HasFailed(calls, {"commit -m"})
             => /\ ~HasCall(calls, {"push"})
                /\ CommitFailureReport
                /\ ~HasEntry("push failed")

\* Commit-and-push whose commit failed.
C5_Witness == handler = "on_commit_push" /\ HasFailed(calls, {"commit -m"})

Slices ==
    <<staged_table, unstaged_table, untracked_table, changes_summary, log_table,
      local_table, remote_table>>

\* C6: when the mutating invocation of a mutation handler fails, the handler
\* runs no refresh and leaves the file collections, the change summary, the
\* commit sequence and both branch collections unchanged.
C6_FailedMutationChangesNothing ==
    [][HasFailed(calls', Mutations)
         => ~HasCall(calls', Fetches) /\ Slices' = Slices]_vars

\* A failed stage-all over a status view that shows files.
C6_Witness ==
    /\ handler = "on_stage_all"
    /\ HasFailed(calls, {"add -A"})
    /\ unstaged_table # <<>>

\* The invocation with which the refresh of the slice a mutation affects
\* begins: refresh_status or update_summary for the working tree,
\* refresh_branches for the branches.
RefreshOf(cmd) ==
    CASE cmd \in {"add -A", "reset HEAD", "commit -m", "commit --amend -m",
                  "commit --amend --no-edit", "reset --soft HEAD~1"}
           -> {"rev-parse --show-toplevel", "status --short"}
      [] cmd \in {"checkout -b", "checkout", "pull"} -> {"branch -v"}
      [] OTHER -> {}

SingleMutationHandlers ==
    { "on_stage_all", "on_unstage_all", "on_create_branch", "on_branch_selected",
      "on_commit", "on_amend_commit", "on_undo_commit", "on_pull" }

\* C7: when the mutating invocation of a mutation handler succeeds, the
\* handler fetches the slice the mutation affects before it returns: the
\* status after stage all, unstage all, commit, amend and undo, the branch
\* listings after create branch, switch branch and pull.
C7_SuccessfulMutationRefetches ==
    handler \in SingleMutationHandlers =>
        \A i \in 1..Len(calls) :
            (calls[i].cmd \in Mutations /\ calls[i].ok)
                => \E j \in (i + 1)..Len(calls) :
                     calls[j].cmd \in RefreshOf(calls[i].cmd)

FailureEntries == { "commit failed", "push failed", "operation failed" }

\* What the user sees of a failure: a warning or error notification, a
\* failure entry of the log, or the error state of a view.
FailureReported ==
    \/ \E i \in 1..Len(notes) : notes[i].severity \in {"error", "warning"}
    \/ \E i \in 1..Len(logged) : logged[i].msg \in FailureEntries
    \/ HasFailed(calls, {"rev-parse --show-toplevel"}) /\ repo_info = NotARepo
    \/ HasFailed(calls, SummaryFetches) /\ changes_summary = SummaryError

\* C8: a handler in which a mutation or a fetch fails shows the user a
\* failure report before it returns.
C8_EveryFailureReported ==
    HasFailed(calls, Mutations \cup Fetches) => FailureReported

\* A refresh_status run in which every invocation succeeded.
StatusFetched ==
    HasCall(calls, {"status --porcelain"}) /\ ~HasFailed(calls, StatusFetches)

\* The rows of the lines git printed, each line read from its own first
\* character.
PrintedRows(r) == status_rows(split(StatusStdout(r), "\n"))

\* C11: after a successful status refresh every line `XY path` git printed,
\* the first line included, is classified by its own X and Y and shown with
\* its own path: ` M a.py` gives one unstaged entry a.py and no staged entry.
C11_EveryLineByItsOwnCodes ==
    StatusFetched =>
        /\ staged_table = PrintedRows(repo).staged
        /\ unstaged_table = PrintedRows(repo).unstaged
        /\ untracked_table = PrintedRows(repo).untracked

\* The lines of text that hold a status code pair and a path position.
LongLines(t) == SelectSeq(split(t, "\n"), LAMBDA l : Len(l) >= 3)
HasIndexCode(l) == l[1] \in {"M", "A", "D", "R", "C"}
HasWorktreeCode(l) == l[2] \in {"M", "D"}
IsUntrackedLine(l) == l[1] = "?" /\ l[2] = "?"

\* The text from character index 3 of each line, in order.
PathsOf(ls) == [i \in 1..Len(ls) |-> SubSeq(ls[i], 4, Len(ls[i]))]
FilesOf(rows) == [i \in 1..Len(rows) |-> rows[i].file]

\* C12: the status parsing loop gives each line of length 3 or more a staged
\* entry iff its character 0 is one of M A D R C, an unstaged entry iff its
\* character 1 is M or D and an untracked entry iff both are `?`, each with
\* the line's path; shorter lines give nothing.
C12_StatusLoopClassifiesEachLine ==
    handler = "status_loop" =>
        /\ FilesOf(staged_table) = PathsOf(SelectSeq(LongLines(text), HasIndexCode))
        /\ FilesOf(unstaged_table) = PathsOf(SelectSeq(LongLines(text), HasWorktreeCode))
        /\ FilesOf(untracked_table) = PathsOf(SelectSeq(LongLines(text), IsUntrackedLine))
        /\ \A i \in 1..Len(untracked_table) : untracked_table[i].status = "New"

\* `MM a` and `?? a` parsed: one staged and one unstaged entry for the first
\* line, one untracked entry for the second.
C12_Witness ==
    /\ handler = "status_loop"
    /\ text = <<"M", "M", " ", "a", "\n", "?", "?", " ", "a">>
    /\ Len(staged_table) = 1
    /\ Len(unstaged_table) = 1
    /\ Len(untracked_table) = 1

FileSet(rows) == { rows[i].file : i \in 1..Len(rows) }

Delimiters(l) == { i \in 1..Len(l) : l[i] = "|" }
ThirdDelimiter(l) ==
    CHOOSE i \in Delimiters(l) : Cardinality({ j \in Delimiters(l) : j < i }) = 2

\* The lines of t that hold three delimiters or more, and what follows the
\* third delimiter of such a line.
RecordLines(t) == SelectSeq(split(t, "\n"), LAMBDA l : Cardinality(Delimiters(l)) >= 3)
SubjectOf(l) == SubSeq(l, ThirdDelimiter(l) + 1, Len(l))

\* C14: load_commits splits a history line on its first three delimiters
\* only: a line with three delimiters or more gives one record, in the order
\* of the lines, whose subject is all that follows the third delimiter, any
\* further delimiter kept (up to the length the record keeps); a line with
\* fewer delimiters gives no record.
C14_SplitsOnFirstThreeDelimiters ==
    handler = "history_loop" =>
        /\ Len(log_table) = Len(RecordLines(text))
        /\ \A i \in 1..Len(log_table) :
             LET l == RecordLines(text)[i]
                 row == log_table[i]
             IN  /\ row.hash \o <<"|">> \o row.author \o <<"|">> \o row.date
                        = SubSeq(l, 1, ThirdDelimiter(l) - 1)
                 /\ Cardinality(Delimiters(row.hash \o row.author \o row.date)) = 0
                 /\ Take(row.message, 50) = Take(SubjectOf(l), 50)
                 /\ Len(SubjectOf(l)) <= 50 => row.message = SubjectOf(l)

\* A line with a delimiter inside its subject, after a line without subject
\* field: one record, the delimiter kept.
C14_Witness ==
    /\ handler = "history_loop"
    /\ text = <<"h", "|", "A", "\n", "h", "|", "A", "|", "1", "d", "|", "a", "|", "b">>
    /\ Len(log_table) = 1
    /\ log_table[1].message = <<"a", "|", "b">>

\* C15: a subject longer than 50 characters is emitted as its first 50
\* characters followed by `...`, 53 characters in all; a subject of 50
\* characters or fewer is emitted unchanged.
C15_LongSubjectTruncated ==
    handler = "history_loop" =>
        \A i \in 1..Len(log_table) :
            LET subject == SubjectOf(RecordLines(text)[i])
                emitted == log_table[i].message
            IN  IF Len(subject) > 50
                THEN /\ Len(emitted) = 53
                     /\ SubSeq(emitted, 1, 50) = SubSeq(subject, 1, 50)
                     /\ SubSeq(emitted, 51, 53) = <<".", ".", ".">>
                ELSE emitted = subject

\* A subject of 51 characters and one of exactly 50 in the same output.
C15_Witness ==
    /\ handler = "history_loop"
    /\ Len(log_table) = 2
    /\ Len(SubjectOf(RecordLines(text)[1])) = 51
    /\ Len(log_table[1].message) = 53
    /\ Len(SubjectOf(RecordLines(text)[2])) = 50
    /\ Len(log_table[2].message) = 50

\* The records of the history fetch c: those of its output, none when it failed.
RecordsOf(c) ==
    IF c.ok /\ c.out # <<>> THEN commit_rows(split(c.out, "\n")) ELSE <<>>

\* C16: every load more requests a count strictly larger than the count of
\* the history fetch before it, and the commit sequence afterwards holds the
\* records of the new fetch only.
C16_LoadMoreRequestsMore ==
    [][(handler' = "on_load_more" /\ HasCall(calls, HistoryFetches))
         => /\ calls'[1].n > calls[1].n
            /\ log_table' = RecordsOf(calls'[1])]_vars

\* The line's marker: `*` is its first character that is not a space.
IsMarked(l) == lstrip(l) # <<>> /\ Head(lstrip(l)) = "*"

\* The text after the marker and the spaces around it.
AfterMarker(l) == IF IsMarked(l) THEN lstrip(Tail(lstrip(l))) ELSE lstrip(l)

\* The positions at which a whitespace-delimited field of t begins.
FieldStarts(t) ==
    { i \in 1..Len(t) : ~IsSpace(t[i]) /\ (i = 1 \/ IsSpace(t[i - 1])) }

\* The first field of t (t begins with it).
FirstField(t) ==
    SubSeq(t, 1, IF \E i \in 1..Len(t) : IsSpace(t[i])
                 THEN (CHOOSE i \in 1..Len(t) :
                         IsSpace(t[i]) /\ \A j \in 1..(i - 1) : ~IsSpace(t[j])) - 1
                 ELSE Len(t))

EntryLines(t) ==
    SelectSeq(split(t, "\n"), LAMBDA l : Cardinality(FieldStarts(AfterMarker(l))) >= 2)

\* C17: refresh_branches emits a local entry for a line of `branch -v` iff
\* the text after the marker and leading spaces has two whitespace-delimited
\* fields or more; the entry's name is the first field and the entry is
\* current iff the line's marker is `*`.
C17_LocalEntryPerLine ==
    (handler = "refresh_branches" /\ HasSucceeded(calls, {"branch -v"})) =>
        /\ Len(local_table) = Len(EntryLines(text))
        /\ \A i \in 1..Len(local_table) :
             /\ local_table[i].name = FirstField(AfterMarker(EntryLines(text)[i]))
             /\ local_table[i].current = IsMarked(EntryLines(text)[i])

\* `* m c` after a line that holds a name only: one entry, m, current.
C17_Witness ==
    /\ handler = "refresh_branches"
    /\ HasSucceeded(calls, {"branch -v"})
    /\ text = <<" ", " ", "m", "\n", "*", " ", "m", " ", "c">>
    /\ Len(local_table) = 1
    /\ local_table[1].current

HasPointer(l) == \E i \in 1..(Len(l) - 1) : l[i] = "-" /\ l[i + 1] = ">"
IsBlank(l) == \A i \in 1..Len(l) : IsSpace(l[i])

\* The lines of t that are not blank and hold no `->`.
PlainLines(t) == SelectSeq(split(t, "\n"), LAMBDA l : ~IsBlank(l) /\ ~HasPointer(l))

\* C18: after a branch refresh the remote collection holds the non-blank
\* lines of the `branch -r` output that hold no `->`, in output order (each
\* without its indentation), and no entry holds `->`; a listing that failed
\* printed nothing.
C18_RemoteEntriesArePlainLines ==
    handler = "refresh_branches" =>
        /\ \A i \in 1..Len(remote_table) : ~HasPointer(remote_table[i])
        /\ HasSucceeded(calls, {"branch -r"})
               => /\ Len(remote_table) = Len(PlainLines(text))
                  /\ \A i \in 1..Len(remote_table) :
                       IsTrimOf(remote_table[i], PlainLines(text)[i])
        /\ HasFailed(calls, {"branch -r"}) => remote_table = <<>>

\* A pointer line and a plain name: the name alone is kept.
C18_Witness ==
    /\ handler = "refresh_branches"
    /\ HasSucceeded(calls, {"branch -r"})
    /\ text = <<" ", " ", "o", "/", "H", " ", "-", ">", " ", "o", "/", "m", "\n",
                " ", " ", "o", "/", "m">>
    /\ remote_table = << <<"o", "/", "m">> >>

\* The handlers that only fetch: the refresh buttons of the three panels and
\* the refresh key, which refreshes the panel shown.
ReadOnlyRefreshes ==
    { "GitStatus.on_refresh", "GitLog.on_refresh", "GitBranches.on_refresh",
      "action_refresh" }

\* C19: a read-only refresh issued again right after itself, the repository
\* unchanged and the tool answering as it did the first time, leaves the
\* slice as the first refresh left it.
C19_RefreshTwiceIsRefreshOnce ==
    [][(handler \in ReadOnlyRefreshes /\ handler' = handler /\ calls' = calls
          /\ repo' = repo)
         => Slices' = Slices /\ repo_info' = repo_info]_vars

\* A history refresh that fetched commits: the state in which the same
\* refresh is issued again.
C19_Witness ==
    /\ handler = "GitLog.on_refresh"
    /\ HasSucceeded(calls, HistoryFetches)
    /\ log_table # <<>>

\* C20: at most one refresh of the status slice is in flight: a handler that
\* has cleared the tables adds its rows before any other handler writes the
\* slice, under every order in which key and button presses arrive.
C20_OneRefreshInFlight ==
    [][/\ Len(in_flight') <= 1
       /\ (in_flight # <<>> /\ statusVars' # statusVars)
              => /\ in_flight' = <<>>
                 /\ FileTables' = <<in_flight[1].ref.staged, in_flight[1].ref.unstaged,
                                    in_flight[1].ref.untracked>>]_vars

\* A refresh has cleared the tables and not yet added its rows, and two more
\* presses wait.
C20_Witness ==
    /\ Len(in_flight) = 1
    /\ in_flight[1].ref.unstaged # <<>>
    /\ unstaged_table = <<>>
    /\ Len(pending) = 2

\* The commands of the invocations cs, in order.
Commands(cs) == [i \in 1..Len(cs) |-> cs[i].cmd]

\* C21: selecting a local branch issues `checkout <name>` for the selected
\* row; when it succeeds the handler then issues `branch -v` and `branch -r`,
\* in that order and after the checkout; when it fails it issues no branch
\* fetch and leaves both branch collections unchanged.
C21_SwitchThenFullRefetch ==
    [][handler' = "on_branch_selected"
         => /\ calls' # <<>>
            /\ calls'[1].cmd = "checkout"
            /\ \E i \in 1..Len(local_table) : calls'[1].arg = local_table[i].name
            /\ IF calls'[1].ok
               THEN /\ Commands(calls') = <<"checkout", "branch -v", "branch -r">>
                    /\ repo'.branch = calls'[1].arg
               ELSE /\ Len(calls') = 1
                    /\ local_table' = local_table
                    /\ remote_table' = remote_table
                    /\ repo' = repo]_vars

\* A switch to dev that succeeded and whose two fetches succeeded.
C21_Witness ==
    /\ handler = "on_branch_selected"
    /\ Commands(calls) = <<"checkout", "branch -v", "branch -r">>
    /\ \A i \in 1..Len(calls) : calls[i].ok
    /\ calls[1].arg = Dev
    /\ \E i \in 1..Len(local_table) : local_table[i].current /\ local_table[i].name = Dev

\* The commit view's counts are the sizes of the status view's collections.
ViewsAgree ==
    /\ changes_summary.kind = "counts"
    /\ changes_summary.staged = Len(staged_table)
    /\ changes_summary.unstaged = Len(unstaged_table)
    /\ changes_summary.untracked = Len(untracked_table)

\* C22: once both views are shown, the staged, unstaged and untracked counts
\* of the commit view equal the sizes of the three collections of the status
\* view after every handler; here for the handlers in which no invocation
\* fails, started where the views agree.
C22_ViewsStayConsistent ==
    [][({"GitStatus", "GitCommit"} \subseteq mounted /\ ViewsAgree
          /\ repo_info.kind = "repository"
          /\ ~HasFailed(calls', Mutations \cup Fetches))
         => ViewsAgree']_vars

\* A branch switch or creation all of whose invocations succeeded.
SwitchedBranch ==
    /\ handler \in {"on_branch_selected", "on_create_branch"}
    /\ calls # <<>>
    /\ \A i \in 1..Len(calls) : calls[i].ok

\* C23: after a successful branch switch or creation the current-branch name
\* the status view shows is the branch just checked out, which is the name
\* of the entry marked current in the local branch collection.
C23_OneCurrentBranchName ==
    (SwitchedBranch /\ "GitStatus" \in mounted /\ repo_info.kind = "repository") =>
        /\ \E i \in 1..Len(local_table) :
             local_table[i].current /\ local_table[i].name = calls[1].arg
        /\ repo_info.branch = calls[1].arg

\* C24: for every status text the staged, unstaged and untracked counts of
\* update_summary are the numbers of staged, unstaged and untracked entries
\* of refresh_status for the same text, lines shorter than 3 characters
\* included.
C24_ClassifiersAgree ==
    (handler = "status_loop" /\ changes_summary.kind = "counts") =>
        /\ changes_summary.staged = Len(staged_table)
        /\ changes_summary.unstaged = Len(unstaged_table)
        /\ changes_summary.untracked = Len(untracked_table)

\* The handler ran and left the repository and every view as they were.
NothingDone ==
    /\ calls' = <<>>
    /\ repo' = repo
    /\ Slices' = Slices
    /\ repo_info' = repo_info
    /\ commit_message' = commit_message
    /\ new_branch_input' = new_branch_input

\* C25: with a commit message that is empty or whitespace, commit and
\* commit-and-push invoke nothing and change nothing; with a new-branch name
\* that is empty or whitespace, create branch invokes nothing and changes
\* nothing; amend invokes `commit --amend --no-edit` for such a message and
\* `commit --amend -m <message>` otherwise.
C25_InputGuards ==
    [][/\ (handler' \in {"on_commit", "on_commit_push"} /\ IsBlank(commit_message))
              => NothingDone
       /\ (handler' \in {"on_commit", "on_commit_push"} /\ ~IsBlank(commit_message))
              => calls' # <<>> /\ calls'[1].cmd = "commit -m"
       /\ (handler' = "on_create_branch" /\ IsBlank(new_branch_input))
              => NothingDone
       /\ (handler' = "on_create_branch" /\ ~IsBlank(new_branch_input))
              => calls' # <<>> /\ calls'[1].cmd = "checkout -b"
       /\ handler' = "on_amend_commit"
              => /\ Len(calls') = 1
                 /\ IF IsBlank(commit_message)
                    THEN calls'[1].cmd = "commit --amend --no-edit"
                    ELSE /\ calls'[1].cmd = "commit --amend -m"
                         /\ IsTrimOf(calls'[1].arg, commit_message)]_vars

\* Commit pressed over a message of one space: nothing was invoked.
C25_Witness ==
    /\ handler = "on_commit"
    /\ commit_message = <<" ">>
    /\ calls = <<>>

\* The handlers that read the commit message.
MessageHandlers == { "on_commit", "on_commit_push", "on_amend_commit" }

\* Every mutation of the run cs succeeded, the push included when the
\* handler h is commit-and-push.
WholeOperationSucceeded(h, cs) ==
    /\ HasCall(cs, Mutations)
    /\ ~HasFailed(cs, Mutations)
    /\ h = "on_commit_push" => HasCall(cs, {"push"})

\* C26: commit, commit-and-push and amend clear the commit message exactly
\* when the whole operation succeeded and leave it unchanged otherwise, also
\* when the commit succeeded and the push failed; commit-and-push pressed
\* again after that issues a commit with the same message before any push.
C26_MessageClearedOnFullSuccess ==
    [][/\ handler' \in MessageHandlers
              => IF WholeOperationSucceeded(handler', calls')
                 THEN commit_message' = <<>>
                 ELSE commit_message' = commit_message
       /\ (CommittedNotPushed /\ handler' = "on_commit_push")
              => /\ calls'[1].cmd = "commit -m"
                 /\ calls'[1].arg = calls[1].arg
                 /\ \A i \in 1..Len(calls') : calls'[i].cmd = "push" => i > 1]_vars

\* Committed, not pushed, and the message is still in the input.
C26_Witness == CommittedNotPushed /\ ~IsBlank(commit_message)

====
